---- MODULE Spec2Model ----
(***************************************************************************)
(* HealthGuard Pro (src/app.py): the session state of the Streamlit app,   *)
(* its button handlers, the randomized analyzers and the health-score      *)
(* aggregation create_health_report.                                       *)
(*                                                                         *)
(* Python floats are IEEE-754 binary64.  The score is a sum of products of *)
(* decimal literals (0.2, 0.1, 36.6) that have no exact binary form, so    *)
(* the arithmetic is modelled bit-exactly: a float is a sign, a 53-bit     *)
(* significand kept as a little-endian sequence of 15-bit limbs, and a     *)
(* binary exponent; every operation computes the exact result and rounds   *)
(* it to nearest, ties to even.                                            *)
(***************************************************************************)
EXTENDS Integers, Sequences, FiniteSets, TLC

(***************************************************************************)
(* Natural numbers of arbitrary size: little-endian limb sequences with no *)
(* high zero limb; <<>> is zero.                                           *)
(***************************************************************************)
Base == 2^15

Pow2(k) == 2^k

RECURSIVE Strip(_)
Strip(a) ==
    IF a = <<>> THEN <<>>
    ELSE IF a[Len(a)] = 0 THEN Strip(SubSeq(a, 1, Len(a) - 1))
    ELSE a

RECURSIVE BigFromNat(_)
BigFromNat(n) ==
    IF n = 0 THEN <<>> ELSE <<n % Base>> \o BigFromNat(n \div Base)

RECURSIVE BigToNat(_)
BigToNat(a) ==
    IF a = <<>> THEN 0 ELSE Head(a) + Base * BigToNat(Tail(a))

RECURSIVE AddC(_, _, _)
AddC(a, b, c) ==
    IF a = <<>> /\ b = <<>> THEN (IF c = 0 THEN <<>> ELSE <<c>>)
    ELSE LET x == IF a = <<>> THEN 0 ELSE Head(a)
             y == IF b = <<>> THEN 0 ELSE Head(b)
             s == x + y + c
         IN  <<s % Base>> \o AddC(IF a = <<>> THEN <<>> ELSE Tail(a),
                                  IF b = <<>> THEN <<>> ELSE Tail(b),
                                  s \div Base)

BigAdd(a, b) == AddC(a, b, 0)

RECURSIVE SubB(_, _, _)
SubB(a, b, c) ==
    IF a = <<>> THEN <<>>
    ELSE LET y == IF b = <<>> THEN 0 ELSE Head(b)
             d == Head(a) - y - c
         IN  <<d % Base>> \o SubB(Tail(a),
                                  IF b = <<>> THEN <<>> ELSE Tail(b),
                                  IF d < 0 THEN 1 ELSE 0)

\* a - b for a >= b
BigSub(a, b) == Strip(SubB(a, b, 0))

RECURSIVE CmpFrom(_, _, _)
CmpFrom(a, b, i) ==
    IF i = 0 THEN 0
    ELSE IF a[i] > b[i] THEN 1
    ELSE IF a[i] < b[i] THEN -1
    ELSE CmpFrom(a, b, i - 1)

\* -1, 0, 1 as a < b, a = b, a > b
BigCmp(a, b) ==
    IF Len(a) > Len(b) THEN 1
    ELSE IF Len(a) < Len(b) THEN -1
    ELSE CmpFrom(a, b, Len(a))

RECURSIVE MulLimb(_, _, _)
MulLimb(a, d, c) ==
    IF a = <<>> THEN (IF c = 0 THEN <<>> ELSE <<c>>)
    ELSE LET p == Head(a) * d + c
         IN  <<p % Base>> \o MulLimb(Tail(a), d, p \div Base)

RECURSIVE BigMul(_, _)
BigMul(a, b) ==
    IF a = <<>> \/ b = <<>> THEN <<>>
    ELSE BigAdd(MulLimb(a, Head(b), 0),
                IF Tail(b) = <<>> THEN <<>> ELSE <<0>> \o BigMul(a, Tail(b)))

Zeros(q) == [i \in 1..q |-> 0]

\* a * 2^k
Shl(a, k) ==
    IF a = <<>> THEN <<>>
    ELSE Zeros(k \div 15) \o MulLimb(a, Pow2(k % 15), 0)

\* floor(a / 2^k)
Shr(a, k) ==
    LET q == k \div 15
        r == k % 15
    IN  IF q >= Len(a) THEN <<>>
        ELSE LET t == SubSeq(a, q + 1, Len(a))
             IN  Strip([i \in 1..Len(t) |->
                        (t[i] \div Pow2(r))
                        + (IF i < Len(t) THEN (t[i + 1] % Pow2(r)) * Pow2(15 - r)
                           ELSE 0)])

\* a mod 2^k
LowBits(a, k) ==
    LET q == k \div 15
        r == k % 15
    IN  IF q >= Len(a) THEN a
        ELSE Strip(SubSeq(a, 1, q) \o <<a[q + 1] % Pow2(r)>>)

RECURSIVE NatBits(_)
NatBits(n) == IF n = 0 THEN 0 ELSE 1 + NatBits(n \div 2)

BitLen(a) == IF a = <<>> THEN 0 ELSE 15 * (Len(a) - 1) + NatBits(a[Len(a)])

IsOdd(a) == a # <<>> /\ a[1] % 2 = 1

\* quotient and remainder of a by a single limb d, from the high limb down
RECURSIVE DivLimb(_, _, _)
DivLimb(a, d, i) ==
    IF i > Len(a) THEN [q |-> <<>>, r |-> 0]
    ELSE LET hi  == DivLimb(a, d, i + 1)
             cur == hi.r * Base + a[i]
         IN  [q |-> <<cur \div d>> \o hi.q, r |-> cur % d]

(***************************************************************************)
(* binary64 values: [s, m, e] stands for s * m * 2^e with 2^52 <= m < 2^53;*)
(* zero is [s |-> 1, m |-> <<>>, e |-> 0].  The magnitudes met here stay   *)
(* far from the subnormal and overflow ranges.                             *)
(***************************************************************************)
FZero == [s |-> 1, m |-> <<>>, e |-> 0]

\* round s * n * 2^e (n exact, and `sticky' when a nonzero part below n was
\* dropped) to the nearest binary64, ties to even
RoundSticky(s, n, e, sticky) ==
    LET L == BitLen(n)
    IN  IF n = <<>> THEN FZero
        ELSE IF L <= 53 THEN [s |-> s, m |-> Shl(n, 53 - L), e |-> e - (53 - L)]
        ELSE LET sh   == L - 53
                 q    == Shr(n, sh)
                 r    == LowBits(n, sh)
                 half == Shl(<<1>>, sh - 1)
                 c    == BigCmp(r, half)
                 up   == c = 1 \/ (c = 0 /\ (sticky \/ IsOdd(q)))
                 q2   == IF up THEN BigAdd(q, <<1>>) ELSE q
             IN  IF BitLen(q2) = 54
                 THEN [s |-> s, m |-> Shr(q2, 1), e |-> e + sh + 1]
                 ELSE [s |-> s, m |-> q2, e |-> e + sh]

Round(s, n, e) == RoundSticky(s, n, e, FALSE)

\* int -> float (exact below 2^53)
FromInt(n) == Round(IF n < 0 THEN -1 ELSE 1, BigFromNat(IF n < 0 THEN -n ELSE n), 0)

\* num / den correctly rounded (0 < den < Base): the float a decimal literal
\* denotes, and Python's true division of two small ints
FromDecimal(num, den) ==
    LET d == DivLimb(Shl(BigFromNat(IF num < 0 THEN -num ELSE num), 80), den, 1)
    IN  RoundSticky(IF num < 0 THEN -1 ELSE 1, Strip(d.q), -80, d.r # 0)

FNeg(x) == IF x.m = <<>> THEN x ELSE [x EXCEPT !.s = -x.s]

FAbs(x) == [x EXCEPT !.s = 1]

FMul(x, y) ==
    IF x.m = <<>> \/ y.m = <<>> THEN FZero
    ELSE Round(x.s * y.s, BigMul(x.m, y.m), x.e + y.e)

FAdd(x, y) ==
    IF x.m = <<>> THEN y
    ELSE IF y.m = <<>> THEN x
    ELSE LET e == IF x.e < y.e THEN x.e ELSE y.e
             a == Shl(x.m, x.e - e)
             b == Shl(y.m, y.e - e)
             c == BigCmp(a, b)
         IN  IF x.s = y.s THEN Round(x.s, BigAdd(a, b), e)
             ELSE IF c = 0 THEN FZero
             ELSE IF c = 1 THEN Round(x.s, BigSub(a, b), e)
             ELSE Round(y.s, BigSub(b, a), e)

FSub(x, y) == FAdd(x, FNeg(y))

\* sign of x - y: -1, 0, 1
FCmp(x, y) ==
    LET d == FSub(x, y)
    IN  IF d.m = <<>> THEN 0 ELSE d.s

FLt(x, y) == FCmp(x, y) = -1

FGe(x, y) == FCmp(x, y) >= 0

\* round half away from zero instead of truncating
FNearest(x) ==
    IF x.m = <<>> THEN 0
    ELSE LET y == FAdd(FAbs(x), FromDecimal(5, 10))
         IN  x.s * BigToNat(IF y.e >= 0 THEN Shl(y.m, y.e) ELSE Shr(y.m, -y.e))

\* floor instead of truncating
FFloor(x) ==
    IF x.m = <<>> THEN 0
    ELSE LET t == BigToNat(IF x.e >= 0 THEN Shl(x.m, x.e) ELSE Shr(x.m, -x.e))
         IN  IF x.s = 1 THEN t
             ELSE IF x.e >= 0 \/ LowBits(x.m, -x.e) = <<>> THEN -t
             ELSE -t - 1

\* int(x): truncation toward zero
FTrunc(x) ==
    IF x.m = <<>> THEN 0
    ELSE x.s * BigToNat(IF x.e >= 0 THEN Shl(x.m, x.e) ELSE Shr(x.m, -x.e))

(***************************************************************************)
(* create_health_report (src/app.py 153-206).  Python dicts are functions  *)
(* on their key set; d.get(k, default) is Get.                             *)
(***************************************************************************)
Get(d, k, default) == IF k \in DOMAIN d THEN d[k] ELSE default

\* the literals of the weights dict, in hundredths
weights_literal ==
    [heart_rate |-> 20, stress_level |-> 25, fatigue_level |-> 25,
     posture_score |-> 20, temperature |-> 10]

\* the floats those literals denote
weights == [k \in DOMAIN weights_literal |-> FromDecimal(weights_literal[k], 100)]

\* the default temperature 36.5 taken as the reference
TEMP_REF_default == FromDecimal(365, 10)

\* the literal 36.6
TEMP_REF == FromDecimal(366, 10)

Abs(n) == IF n < 0 THEN -n ELSE n

\* the heart term clamped below at 0
heart_component_clamped(report) ==
    LET v == 100 - Abs(report["heart_rate"] - 72) * 2
    IN  IF v < 0 THEN 0 ELSE IF v < 100 THEN v ELSE 100

\* min(100, 100 - abs(heart_rate - 72) * 2), an int
heart_component(report) ==
    LET v == 100 - Abs(report["heart_rate"] - 72) * 2
    IN  IF v < 100 THEN v ELSE 100

\* min(100, 100 - abs(temperature - 36.6) * 20), a float
temp_component(report) ==
    LET v == FSub(FromInt(100),
                  FMul(FAbs(FSub(report["temperature"], TEMP_REF)), FromInt(20)))
    IN  IF FLt(v, FromInt(100)) THEN v ELSE FromInt(100)

\* no fallback for a category outside the table
stress_score_strict(report) ==
    CASE report["stress_level"] = "Low" -> 90
      [] report["stress_level"] = "Moderate" -> 70
      [] report["stress_level"] = "High" -> 40
      [] OTHER -> 0

stress_score(report) ==
    CASE report["stress_level"] = "Low" -> 90
      [] report["stress_level"] = "Moderate" -> 70
      [] report["stress_level"] = "High" -> 40
      [] OTHER -> 60

\* 'Fatigued' scored 4 instead of 40
fatigue_score_typo(report) ==
    CASE report["fatigue_level"] = "Alert" -> 90
      [] report["fatigue_level"] = "Mild Fatigue" -> 70
      [] report["fatigue_level"] = "Fatigued" -> 4
      [] OTHER -> 60

fatigue_score(report) ==
    CASE report["fatigue_level"] = "Alert" -> 90
      [] report["fatigue_level"] = "Mild Fatigue" -> 70
      [] report["fatigue_level"] = "Fatigued" -> 40
      [] OTHER -> 60

\* the weighted sum, added left to right as Python evaluates it
overall_score(report) ==
    FAdd(FAdd(FAdd(FAdd(
        FMul(weights["heart_rate"], FromInt(heart_component(report))),
        FMul(weights["stress_level"], FromInt(stress_score(report)))),
        FMul(weights["fatigue_level"], FromInt(fatigue_score(report)))),
        FMul(weights["posture_score"], FromInt(report["posture_score"]))),
        FMul(weights["temperature"], temp_component(report)))

\* the bounds compared with > instead of >=
health_status_exclusive(score) ==
    IF FCmp(score, FromInt(85)) = 1 THEN "Excellent"
    ELSE IF FCmp(score, FromInt(70)) = 1 THEN "Good"
    ELSE IF FCmp(score, FromInt(50)) = 1 THEN "Fair"
    ELSE "Poor"

health_status(score) ==
    IF FGe(score, FromInt(85)) THEN "Excellent"
    ELSE IF FGe(score, FromInt(70)) THEN "Good"
    ELSE IF FGe(score, FromInt(50)) THEN "Fair"
    ELSE "Poor"

recommendation(score) ==
    IF FGe(score, FromInt(85)) THEN "Maintain current routine"
    ELSE IF FGe(score, FromInt(70)) THEN "Take short breaks, stay hydrated"
    ELSE IF FGe(score, FromInt(50)) THEN "Consider rest break, hydrate, stretch"
    ELSE "Immediate rest recommended"

\* a falsy voice_results (None or an empty dict)
NoVoice == <<>>

\* the voice's fatigue_level written over the face's
create_health_report_voiced(face, posture, voice) ==
    LET metrics ==
            [heart_rate    |-> Get(face, "heart_rate_estimate", 72),
             stress_level  |-> Get(face, "stress_level", "Unknown"),
             fatigue_level |-> Get(voice, "fatigue_level",
                                   Get(face, "fatigue_signs", "Unknown")),
             posture_score |-> Get(posture, "posture_score", 75),
             temperature   |-> Get(face, "temperature_estimate",
                                   FromDecimal(365, 10))]
        vocal ==
            IF voice # NoVoice
            THEN [vocal_stress |-> Get(voice, "vocal_stress", FromDecimal(5, 10)),
                  speech_rate  |-> Get(voice, "speech_rate", FromInt(150)),
                  voice_health |-> Get(voice, "voice_health", "Healthy")]
            ELSE <<>>
        score == overall_score(metrics)
    IN  metrics @@ vocal @@
        [overall_health_score |-> FTrunc(score),
         health_status        |-> health_status(score),
         recommendation       |-> recommendation(score)]

\* the defaults 0.5 and 150 of the voice fields are kept as floats
create_health_report(face, posture, voice) ==
    LET metrics ==
            [heart_rate    |-> Get(face, "heart_rate_estimate", 72),
             stress_level  |-> Get(face, "stress_level", "Unknown"),
             fatigue_level |-> Get(face, "fatigue_signs", "Unknown"),
             posture_score |-> Get(posture, "posture_score", 75),
             temperature   |-> Get(face, "temperature_estimate",
                                   FromDecimal(365, 10))]
        vocal ==
            IF voice # NoVoice
            THEN [vocal_stress |-> Get(voice, "vocal_stress", FromDecimal(5, 10)),
                  speech_rate  |-> Get(voice, "speech_rate", FromInt(150)),
                  voice_health |-> Get(voice, "voice_health", "Healthy")]
            ELSE <<>>
        score == overall_score(metrics)
    IN  metrics @@ vocal @@
        [overall_health_score |-> FTrunc(score),
         health_status        |-> health_status(score),
         recommendation       |-> recommendation(score)]

(***************************************************************************)
(* The randomized analyzers (src/app.py 91-136).  Each call reseeds numpy  *)
(* from the wall clock and draws; the outcome of a draw is any value of    *)
(* its range.                                                              *)
(***************************************************************************)
\* np.random.randint(low, high): high is exclusive
randint(low, high) == low..(high - 1)

\* np.random.choice(options, p): every option has positive probability
choice(options) == {options[i] : i \in DOMAIN options}

\* np.random.uniform(low, high) = low + (high - low) * u for a draw u in
\* [0, 1); u ranges over the sampled fractions k / 8
UnitDraws == {FromDecimal(125 * k, 1000) : k \in 0..7}

uniform(low, high) == {FAdd(low, FMul(FSub(high, low), u)) : u \in UnitDraws}

\* everything FaceHealthAnalyzer.analyze_face can return
analyze_face ==
    {[heart_rate_estimate  |-> 65 + d,
      stress_level         |-> sl,
      fatigue_signs        |-> fs,
      temperature_estimate |-> FAdd(FromDecimal(365, 10), t)] :
        d \in randint(-10, 20),
        sl \in choice(<<"Low", "Moderate", "High">>),
        fs \in choice(<<"Alert", "Mild Fatigue", "Fatigued">>),
        t \in uniform(FromDecimal(-5, 10), FromDecimal(5, 10))}

\* everything PostureAnalyzer.analyze_posture can return
analyze_posture ==
    {[posture_score      |-> ps,
      shoulder_alignment |-> sa,
      spine_curvature    |-> sc,
      head_position      |-> hp,
      recommendations    |-> <<"Take regular breaks", "Adjust chair height",
                               "Keep feet flat on floor">>] :
        ps \in randint(60, 95),
        sa \in choice(<<"Good", "Fair", "Poor">>),
        sc \in choice(<<"Normal", "Slight", "Excessive">>),
        hp \in choice(<<"Neutral", "Forward", "Tilted">>)}

(***************************************************************************)
(* The analyzers as calls on numpy's global generator.  np.random.seed(s)  *)
(* sets the generator's state from s alone and every draw advances it, so  *)
(* a call is a function of the generator state it finds and of the clock.  *)
(* The generator here is a small linear congruential one standing for      *)
(* numpy's: the values differ, the way calls depend on seed and state is   *)
(* the same.  The clock t counts ticks, TicksPerSecond to the second.      *)
(***************************************************************************)
TicksPerSecond == 2

\* int(time.time())
int_time(t) == t \div TicksPerSecond

\* int(time.time() * 1000) % 1000
millis(t) == ((t % TicksPerSecond) * 1000) \div TicksPerSecond

\* the number of generator states
RngMod == 1024

\* np.random.seed(s): the state depends on s only
np_seed(s) == (389 * s + 101) % RngMod

\* the generator's step at a draw
rand_step(g) == (5 * g + 3) % RngMod

\* the state after n draws
RECURSIVE after_draws(_, _)
after_draws(g, n) == IF n = 0 THEN g ELSE after_draws(rand_step(g), n - 1)

\* np.random.randint(low, high) read off the state g a draw leaves
random_randint(g, low, high) == low + (g * (high - low)) \div RngMod

\* np.random.choice(options, p=...), p in percent
random_choice(g, options, p) ==
    LET below(i) == IF i = 1 THEN p[1] ELSE IF i = 2 THEN p[1] + p[2] ELSE 100
        hit == CHOOSE i \in 1..3 :
                   /\ 100 * g < RngMod * below(i)
                   /\ i > 1 => 100 * g >= RngMod * below(i - 1)
    IN  options[hit]

\* np.random.uniform(low, high), the unit draw an eighth
random_uniform(g, low, high) ==
    FAdd(low, FMul(FSub(high, low),
                   FromDecimal(125 * ((8 * g) \div RngMod), 1000)))

\* a seed kept from the generator's earlier state instead of the clock
time_seed_kept(g, t) == g

\* np.random.seed(int(time.time())), lines 94 and 127
time_seed(g, t) == np_seed(int_time(t))

\* np.random.seed(int(time.time() * 1000) % 1000), line 108
millis_seed(g, t) == np_seed(millis(t))

\* FaceHealthAnalyzer.analyze_face(image) called at time t with the generator
\* in state g: the results, and the state the generator is left in
analyze_face_call(g, t, image) ==
    LET g0 == time_seed(g, t)
    IN  [results |->
            [heart_rate_estimate  |->
                 65 + random_randint(after_draws(g0, 1), -10, 20),
             stress_level         |->
                 random_choice(after_draws(g0, 2),
                               <<"Low", "Moderate", "High">>, <<60, 30, 10>>),
             fatigue_signs        |->
                 random_choice(after_draws(g0, 3),
                               <<"Alert", "Mild Fatigue", "Fatigued">>,
                               <<50, 40, 10>>),
             temperature_estimate |->
                 FAdd(FromDecimal(365, 10),
                      random_uniform(after_draws(g0, 4),
                                     FromDecimal(-5, 10), FromDecimal(5, 10)))],
         state |-> after_draws(g0, 4)]

\* PostureAnalyzer.analyze_posture(image)
analyze_posture_call(g, t, image) ==
    LET g0 == millis_seed(g, t)
    IN  [results |->
            [posture_score      |-> random_randint(after_draws(g0, 1), 60, 95),
             shoulder_alignment |->
                 random_choice(after_draws(g0, 2),
                               <<"Good", "Fair", "Poor">>, <<70, 20, 10>>),
             spine_curvature    |->
                 random_choice(after_draws(g0, 3),
                               <<"Normal", "Slight", "Excessive">>, <<80, 15, 5>>),
             head_position      |->
                 random_choice(after_draws(g0, 4),
                               <<"Neutral", "Forward", "Tilted">>, <<75, 20, 5>>),
             recommendations    |-> <<"Take regular breaks", "Adjust chair height",
                                      "Keep feet flat on floor">>],
         state |-> after_draws(g0, 4)]

\* VoiceAnalyzer.analyze_voice(audio_file)
analyze_voice_call(g, t, audio_file) ==
    LET g0 == time_seed(g, t)
    IN  [results |->
            [vocal_stress  |-> random_uniform(after_draws(g0, 1),
                                              FromDecimal(1, 10), FromDecimal(9, 10)),
             fatigue_level |->
                 random_choice(after_draws(g0, 2),
                               <<"Low", "Moderate", "High">>, <<60, 30, 10>>),
             speech_rate   |-> random_uniform(after_draws(g0, 3),
                                              FromInt(120), FromInt(180)),
             voice_health  |->
                 random_choice(after_draws(g0, 4),
                               <<"Healthy", "Strained", "Fatigued">>,
                               <<70, 20, 10>>)],
         state |-> after_draws(g0, 4)]

\* the generator after the two analyzer calls of a scan made at time t
rng_after_scan(g, t) == after_draws(millis_seed(after_draws(time_seed(g, t), 4), t), 4)

(***************************************************************************)
(* Text Analysis (src/app.py 742-771).  A text is a string; str.split()    *)
(* cuts it at runs of whitespace and str.lower() maps A-Z to a-z.          *)
(***************************************************************************)
IsSpace(c) == c \in {" ", "\t", "\n", "\r"}

UpperCase == "ABCDEFGHIJKLMNOPQRSTUVWXYZ"

LowerCase == "abcdefghijklmnopqrstuvwxyz"

LowerChar(c) ==
    IF \E i \in 1..Len(UpperCase) : SubSeq(UpperCase, i, i) = c
    THEN LET i == CHOOSE j \in 1..Len(UpperCase) : SubSeq(UpperCase, j, j) = c
         IN  SubSeq(LowerCase, i, i)
    ELSE c

\* the text matched as typed
lower_identity(text) == text

RECURSIVE lower(_)
lower(text) ==
    IF text = "" THEN "" ELSE LowerChar(SubSeq(text, 1, 1)) \o lower(Tail(text))

\* str.split(): the maximal runs of non-whitespace characters, in order;
\* `word' is the run being read
RECURSIVE SplitFrom(_, _)
SplitFrom(text, word) ==
    IF text = "" THEN (IF word = "" THEN <<>> ELSE <<word>>)
    ELSE LET c == SubSeq(text, 1, 1)
         IN  IF IsSpace(c)
             THEN (IF word = "" THEN <<>> ELSE <<word>>) \o SplitFrom(Tail(text), "")
             ELSE SplitFrom(Tail(text), word \o c)

split(text) == SplitFrom(text, "")

stress_keywords ==
    {"tired", "stressed", "overwhelmed", "exhausted", "burnout",
     "anxious", "worried", "pressure", "deadline", "rush"}

word_count(text) == Len(split(text))

stress_words(text) ==
    LET words == split(lower(text))
    IN  Cardinality({i \in 1..Len(words) : words[i] \in stress_keywords})

stress_ratio(text) ==
    LET wc == word_count(text)
    IN  FromDecimal(stress_words(text), IF wc > 1 THEN wc ELSE 1)

\* the thresholds compared with >= instead of >
text_stress_level_inclusive(ratio) ==
    IF FCmp(ratio, FromDecimal(1, 10)) >= 0 THEN "High"
    ELSE IF FCmp(ratio, FromDecimal(5, 100)) >= 0 THEN "Moderate"
    ELSE "Low"

text_stress_level(ratio) ==
    IF FCmp(ratio, FromDecimal(1, 10)) = 1 THEN "High"
    ELSE IF FCmp(ratio, FromDecimal(5, 100)) = 1 THEN "Moderate"
    ELSE "Low"

(***************************************************************************)
(* The session.  st.session_state holds health_data, health_history and    *)
(* emergency (src/app.py 73-88); every click reruns the script with one    *)
(* button true, so an action is one rerun.  `now' is the wall clock in     *)
(* ticks.  face_results, posture_results, voice_results and health_report  *)
(* are the arguments and the result of the latest create_health_report     *)
(* call; scans_analysed counts the scans analysed so far; text_input and   *)
(* text_result are the latest analysed text and what was shown for it.     *)
(* rng is the state of numpy's global generator, and stub_calls lists the  *)
(* analyzer calls made one by one: which, with what argument, when, and    *)
(* the results.                                                            *)
(***************************************************************************)
VARIABLES health_data, health_history, emergency, now,
          face_results, posture_results, voice_results, health_report,
          scans_analysed, text_input, text_result, rng, stub_calls,
          quick_form, quick_result

session == <<health_data, health_history, emergency>>

latest_call == <<face_results, posture_results, voice_results, health_report>>

latest_text == <<text_input, text_result>>

stub == <<rng, stub_calls>>

latest_quick == <<quick_form, quick_result>>

vars == <<health_data, health_history, emergency, now,
          face_results, posture_results, voice_results, health_report,
          scans_analysed, text_input, text_result, rng, stub_calls,
          quick_form, quick_result>>

MaxClock == 1

MaxScans == 2

\* nothing yet: no call made, no text analysed
None == <<>>

\* the dict of lines 74-82 and 314-322
default_health_data(time) ==
    [heart_rate      |-> 72,
     stress_level    |-> "Low",
     fatigue_score   |-> 3,
     posture_score   |-> 85,
     hydration_level |-> "Good",
     temperature     |-> TEMP_REF,
     last_check      |-> time]

Init ==
    /\ now = 0
    /\ health_data = default_health_data(0)
    /\ health_history = <<>>
    /\ emergency = FALSE
    /\ face_results = None
    /\ posture_results = None
    /\ voice_results = None
    /\ health_report = None
    /\ scans_analysed = 0
    /\ text_input = ""
    /\ text_result = None
    /\ rng = 0
    /\ stub_calls = <<>>
    /\ quick_form = None
    /\ quick_result = None

\* time passes between and during reruns
Tick ==
    /\ now < MaxClock
    /\ now' = now + 1
    /\ UNCHANGED <<session, latest_call, scans_analysed, latest_text, stub,
                   latest_quick>>

\* a reset that also clears the emergency flag
ResetAllData_clearing ==
    /\ health_data' = default_health_data(now)
    /\ emergency' = FALSE
    /\ UNCHANGED <<health_history, now, latest_call, scans_analysed,
                   latest_text, stub,
                   latest_quick>>

\* a reset that leaves fatigue_score as it is
ResetAllData_partial ==
    /\ health_data' = [default_health_data(now) EXCEPT
                          !.fatigue_score = health_data.fatigue_score]
    /\ UNCHANGED <<health_history, emergency, now, latest_call, scans_analysed,
                   latest_text, stub,
                   latest_quick>>

\* "Reset All Data"
ResetAllData ==
    /\ health_data' = default_health_data(now)
    /\ UNCHANGED <<health_history, emergency, now, latest_call, scans_analysed,
                   latest_text, stub,
                   latest_quick>>

\* the Emergency Overlay is rendered at the end of a rerun
emergency_overlay == emergency

\* a gauge fed by the latest report's overall_health_score
health_score_overall ==
    IF health_report = None THEN health_data.posture_score
    ELSE health_report["overall_health_score"]

\* the value of the Dashboard's "Overall Health Score" gauge
health_score == health_data.posture_score

\* the alert banner under the gauge: st.error, st.warning or st.success
alert_banner(score) ==
    IF score < 60 THEN "error"
    ELSE IF score < 75 THEN "warning"
    ELSE "success"

\* what the Dashboard tab shows when a rerun renders it
dashboard_banner == alert_banner(health_score)

\* "EMERGENCY ALERT"
EmergencyAlert ==
    /\ emergency' = TRUE
    /\ UNCHANGED <<health_data, health_history, now, latest_call, scans_analysed,
                   latest_text, stub,
                   latest_quick>>

\* "Log Hydration"
LogHydration ==
    /\ health_data' = [health_data EXCEPT !.hydration_level = "Good"]
    /\ UNCHANGED <<health_history, emergency, now, latest_call, scans_analysed,
                   latest_text, stub,
                   latest_quick>>

\* a rest logged without the floor of 1
LogRest_unbounded ==
    /\ health_data' = [health_data EXCEPT !.fatigue_score = @ - 1]
    /\ UNCHANGED <<health_history, emergency, now, latest_call, scans_analysed,
                   latest_text, stub,
                   latest_quick>>

\* "Log Rest"
LogRest ==
    /\ health_data' = [health_data EXCEPT !.fatigue_score =
                          IF @ - 1 > 1 THEN @ - 1 ELSE 1]
    /\ UNCHANGED <<health_history, emergency, now, latest_call, scans_analysed,
                   latest_text, stub,
                   latest_quick>>

\* the analyzer outcomes the session explores: the ends and the middle of
\* the ranges
SampledFaces ==
    {f \in analyze_face :
        <<f.heart_rate_estimate, f.stress_level, f.fatigue_signs,
          f.temperature_estimate>> \in
            {<<55, "Low", "Alert", FromInt(36)>>,
             <<72, "Moderate", "Mild Fatigue", FromDecimal(365, 10)>>,
             <<84, "High", "Fatigued", FromDecimal(36875, 1000)>>}}

SampledPostures ==
    {p \in analyze_posture :
        /\ p.posture_score \in {60, 94}
        /\ p.shoulder_alignment = "Good"
        /\ p.spine_curvature = "Normal"
        /\ p.head_position = "Neutral"}

\* the scans a rerun can make: both analyzers, then create_health_report
SampledScans ==
    {[face |-> f, posture |-> p, report |-> create_health_report(f, p, NoVoice)] :
        f \in SampledFaces, p \in SampledPostures}

\* {'Alert': 1, 'Mild Fatigue': 2, 'Fatigued': 3}.get(fatigue_level, 2)
fatigue_of(level) ==
    CASE level = "Alert" -> 1
      [] level = "Mild Fatigue" -> 2
      [] level = "Fatigued" -> 3
      [] OTHER -> 2

\* a camera scan that stores the measured temperature too
AnalyzeHealth_with_temperature ==
    /\ scans_analysed < MaxScans
    /\ \E scan \in SampledScans :
        /\ face_results' = scan.face
        /\ posture_results' = scan.posture
        /\ voice_results' = NoVoice
        /\ health_report' = scan.report
        /\ health_data' = [health_data EXCEPT
               !.heart_rate    = scan.report["heart_rate"],
               !.stress_level  = scan.report["stress_level"],
               !.fatigue_score = fatigue_of(scan.report["fatigue_level"]),
               !.posture_score = scan.report["posture_score"],
               !.temperature   = scan.report["temperature"],
               !.last_check    = now]
        /\ health_history' = Append(health_history,
               [timestamp |-> now, report |-> scan.report])
    /\ scans_analysed' = scans_analysed + 1
    /\ rng' = rng_after_scan(rng, now)
    /\ UNCHANGED <<emergency, now, latest_text, stub_calls,
                   latest_quick>>

\* Camera Scan, "Analyze Health"
AnalyzeHealth ==
    /\ scans_analysed < MaxScans
    /\ \E scan \in SampledScans :
        /\ face_results' = scan.face
        /\ posture_results' = scan.posture
        /\ voice_results' = NoVoice
        /\ health_report' = scan.report
        /\ health_data' = [health_data EXCEPT
               !.heart_rate    = scan.report["heart_rate"],
               !.stress_level  = scan.report["stress_level"],
               !.fatigue_score = fatigue_of(scan.report["fatigue_level"]),
               !.posture_score = scan.report["posture_score"],
               !.last_check    = now]
        /\ health_history' = Append(health_history,
               [timestamp |-> now, report |-> scan.report])
    /\ scans_analysed' = scans_analysed + 1
    /\ rng' = rng_after_scan(rng, now)
    /\ UNCHANGED <<emergency, now, latest_text, stub_calls,
                   latest_quick>>

\* an upload whose create_health_report call writes into the session
AnalyzeUploadedImage_storing ==
    /\ scans_analysed < MaxScans
    /\ \E scan \in SampledScans :
        /\ face_results' = scan.face
        /\ posture_results' = scan.posture
        /\ voice_results' = NoVoice
        /\ health_report' = scan.report
        /\ health_data' = [health_data EXCEPT
               !.heart_rate = scan.report["heart_rate"]]
    /\ scans_analysed' = scans_analysed + 1
    /\ rng' = rng_after_scan(rng, now)
    /\ UNCHANGED <<health_history, emergency, now, latest_text, stub_calls,
                   latest_quick>>

\* Image Upload, "Analyze Uploaded Image"
AnalyzeUploadedImage ==
    /\ scans_analysed < MaxScans
    /\ \E scan \in SampledScans :
        /\ face_results' = scan.face
        /\ posture_results' = scan.posture
        /\ voice_results' = NoVoice
        /\ health_report' = scan.report
    /\ scans_analysed' = scans_analysed + 1
    /\ rng' = rng_after_scan(rng, now)
    /\ UNCHANGED <<session, now, latest_text, stub_calls,
                   latest_quick>>

\* the texts a user types: j keywords in mixed case, then k filler words
MaxFiller == 40

RECURSIVE Repeat(_, _)
Repeat(word, k) == IF k = 0 THEN "" ELSE word \o Repeat(word, k - 1)

PaddedTexts ==
    {Repeat("Deadline ", j) \o Repeat("ok ", k) \o "." :
        j \in 0..2, k \in 0..MaxFiller}

SpecialTexts ==
    {"I am so tired and stressed about the deadline",
     "TIRED", "tired,", "deadlines", "Tired  and\tRUSH\nnow", "   ",
     "burnout", "so anxious , so worried", "under pressure. exhausted!",
     "overwhelmed overwhelmed", "rushed", "stress",
     "Tired STRESSED Overwhelmed exhausted BurnOut anxious Worried PRESSURE deadline Rush",
     "tiredness stressful pressured"}

TextInputs == PaddedTexts \cup SpecialTexts

SessionTexts == {"I am so tired and stressed about the deadline", "all fine today"}

\* what the Text Analysis handler computes and shows for a text
analyse_text(text) ==
    [word_count   |-> word_count(text),
     stress_words |-> stress_words(text),
     stress_ratio |-> stress_ratio(text),
     stress_level |-> text_stress_level(stress_ratio(text))]

SessionAnalyses == {<<text, analyse_text(text)>> : text \in SessionTexts}

TextAnalyses == {<<text, analyse_text(text)>> : text \in TextInputs}

\* Text Analysis, "Analyze Text", for a non-empty text of `analyses'
AnalyzeTextOf(analyses) ==
    /\ \E a \in analyses :
        /\ a[1] # ""
        /\ text_input' = a[1]
        /\ text_result' = a[2]
    /\ UNCHANGED <<session, now, latest_call, scans_analysed, stub,
                   latest_quick>>

AnalyzeText == AnalyzeTextOf(SessionAnalyses)

(***************************************************************************)
(* Quick Health Check (src/app.py 590-630).  quick_form is the latest      *)
(* submitted form and quick_result what was computed and shown for it.     *)
(* Hydration and Discomfort Areas do not enter the score.                  *)
(***************************************************************************)
\* min(100, (self_hours_slept / 8) * 100); dividing a float by 8 is the
\* exact product with 0.125
sleep_score(hours_slept) ==
    LET v == FMul(FMul(hours_slept, FromDecimal(1, 8)), FromInt(100))
    IN  IF FLt(v, FromInt(100)) THEN v ELSE FromInt(100)

\* min(100, (self_breaks_taken / 4) * 100)
break_score(breaks_taken) ==
    LET v == FMul(FromDecimal(breaks_taken, 4), FromInt(100))
    IN  IF FLt(v, FromInt(100)) THEN v ELSE FromInt(100)

\* (energy_score + stress_score + sleep_score + break_score) / 4, added
\* left to right, the first two terms being ints
quick_overall_score(form) ==
    LET energy_score == form.energy * 10
        stress_term  == 100 - (form.stress * 8)
    IN  FMul(FAdd(FAdd(FromInt(energy_score + stress_term),
                       sleep_score(form.hours_slept)),
                  break_score(form.breaks_taken)),
             FromDecimal(1, 4))

\* the message under the "Estimated Health Score" metric
quick_label(score) ==
    IF FGe(score, FromInt(80)) THEN "Excellent condition!"
    ELSE IF FGe(score, FromInt(60)) THEN "Fair condition"
    ELSE "Needs attention"

\* the sliders' and number inputs' ranges; hours are typed in hundredths
HoursHundredths == {0, 1, 33, 599, 600, 700, 799, 800, 801, 1200}

\* the float a typed number of hours denotes
hours_typed == [k \in HoursHundredths |-> FromDecimal(k, 100)]

HoursInputs == {hours_typed[k] : k \in HoursHundredths}

QuickForms ==
    [energy : 1..10, stress : 1..10, hours_slept : HoursInputs,
     breaks_taken : 0..10]

\* the form's defaults, its best and its worst answers
SessionForms ==
    {[energy |-> 7, stress |-> 4, hours_slept |-> FromInt(7), breaks_taken |-> 2],
     [energy |-> 10, stress |-> 1, hours_slept |-> FromInt(12), breaks_taken |-> 10],
     [energy |-> 1, stress |-> 10, hours_slept |-> FZero, breaks_taken |-> 0]}

\* what the handler computes and shows for a form
quick_check(form) ==
    LET overall == quick_overall_score(form)
    IN  [form   |-> form,
         result |-> [overall_score |-> overall, label |-> quick_label(overall)]]

SessionChecks == {quick_check(form) : form \in SessionForms}

\* a submission that also logs the self-reported stress in the session
SubmitHealthCheckOf_storing(checks) ==
    /\ \E check \in checks :
        /\ quick_form' = check.form
        /\ quick_result' = check.result
        /\ health_data' = [health_data EXCEPT !.stress_level =
               IF check.form.stress > 6 THEN "High" ELSE "Low"]
    /\ UNCHANGED <<health_history, emergency, now, latest_call, scans_analysed,
                   latest_text, stub>>

\* "Submit Health Check" with one of the forms of `checks'
SubmitHealthCheckOf(checks) ==
    /\ \E check \in checks :
        /\ quick_form' = check.form
        /\ quick_result' = check.result
    /\ UNCHANGED <<session, now, latest_call, scans_analysed, latest_text, stub>>

SubmitHealthCheck == SubmitHealthCheckOf(SessionChecks)

Next ==
    \/ Tick
    \/ ResetAllData
    \/ EmergencyAlert
    \/ LogHydration
    \/ LogRest
    \/ AnalyzeHealth
    \/ AnalyzeUploadedImage
    \/ AnalyzeText
    \/ SubmitHealthCheck

Spec == Init /\ [][Next]_vars

(***************************************************************************)
(* The text scan on its own, over many texts.                              *)
(***************************************************************************)
AnalyzeAnyText == text_input = "" /\ AnalyzeTextOf(TextAnalyses)

NextText == AnalyzeAnyText

SpecText == Init /\ [][NextText]_vars

(***************************************************************************)
(* The Quick Health Check on its own, over the whole ranges of its inputs, *)
(* in a session whose emergency flag and fatigue score change.             *)
(***************************************************************************)
SubmitAnyHealthCheck ==
    /\ quick_form = None
    /\ SubmitHealthCheckOf({quick_check(form) : form \in QuickForms})

NextQuick ==
    \/ SubmitAnyHealthCheck
    \/ EmergencyAlert
    \/ LogRest

SpecQuick == Init /\ [][NextQuick]_vars

(***************************************************************************)
(* The analyzers called one by one, as the tabs do (src/app.py 475, 478,   *)
(* 549, 552, 668), and the Run Simulation handler (807-821).  The          *)
(* generator starts in a state taken from the system's entropy.            *)
(***************************************************************************)
MaxStubClock == 6

MaxStubCalls == 2

\* generator states at session start
EntropyStates == {0, 700}

\* what is passed as image or audio: nothing, or some media
Media == {"None", "media"}

InitStub ==
    /\ now = 0
    /\ health_data = default_health_data(0)
    /\ health_history = <<>>
    /\ emergency = FALSE
    /\ face_results = None
    /\ posture_results = None
    /\ voice_results = None
    /\ health_report = None
    /\ scans_analysed = 0
    /\ text_input = ""
    /\ text_result = None
    /\ rng \in EntropyStates
    /\ stub_calls = <<>>
    /\ quick_form = None
    /\ quick_result = None

TickStub ==
    /\ now < MaxStubClock
    /\ now' = now + 1
    /\ UNCHANGED <<session, latest_call, scans_analysed, latest_text, stub,
                   latest_quick>>

\* the entry of stub_calls for a call
stub_call(fn, arg, t, results) ==
    [fn |-> fn, arg |-> arg, at |-> t, results |-> results]

\* face_analyzer.analyze_face(image)
AnalyzeFaceCall ==
    /\ Len(stub_calls) < MaxStubCalls
    /\ \E image \in Media :
        LET call == analyze_face_call(rng, now, image)
        IN  /\ face_results' = call.results
            /\ rng' = call.state
            /\ stub_calls' = Append(stub_calls,
                   stub_call("analyze_face", image, now, call.results))
    /\ UNCHANGED <<session, now, posture_results, voice_results, health_report,
                   scans_analysed, latest_text,
                   latest_quick>>

\* posture_analyzer.analyze_posture(image)
AnalyzePostureCall ==
    /\ Len(stub_calls) < MaxStubCalls
    /\ \E image \in Media :
        LET call == analyze_posture_call(rng, now, image)
        IN  /\ posture_results' = call.results
            /\ rng' = call.state
            /\ stub_calls' = Append(stub_calls,
                   stub_call("analyze_posture", image, now, call.results))
    /\ UNCHANGED <<session, now, face_results, voice_results, health_report,
                   scans_analysed, latest_text,
                   latest_quick>>

\* "Analyze Voice Recording": voice_analyzer.analyze_voice()
AnalyzeVoiceCall ==
    /\ Len(stub_calls) < MaxStubCalls
    /\ \E audio_file \in Media :
        LET call == analyze_voice_call(rng, now, audio_file)
        IN  /\ voice_results' = call.results
            /\ rng' = call.state
            /\ stub_calls' = Append(stub_calls,
                   stub_call("analyze_voice", audio_file, now, call.results))
    /\ UNCHANGED <<session, now, face_results, posture_results, health_report,
                   scans_analysed, latest_text,
                   latest_quick>>

\* "Run Simulation": time.sleep(2), then five analyze_voice() calls in a
\* loop; the loop is shorter than a tick, so the clock ticks at most once
\* inside it: the first `early' calls read `start', the others start + 1
RunSimulation ==
    /\ Len(stub_calls) < MaxStubCalls
    /\ \E start \in (now + 2 * TicksPerSecond)..MaxStubClock, early \in 1..5 :
        /\ early < 5 => start + 1 <= MaxStubClock
        /\ LET at(i) == IF i <= early THEN start ELSE start + 1
               call(i) == analyze_voice_call(rng, at(i), "None")
           IN  /\ stub_calls' = stub_calls \o
                      [i \in 1..5 |->
                          stub_call("analyze_voice", "None", at(i), call(i).results)]
               /\ voice_results' = call(5).results
               /\ rng' = call(5).state
               /\ now' = at(5)
    /\ UNCHANGED <<session, face_results, posture_results, health_report,
                   scans_analysed, latest_text,
                   latest_quick>>

NextStub ==
    \/ TickStub
    \/ AnalyzeFaceCall
    \/ AnalyzePostureCall
    \/ AnalyzeVoiceCall
    \/ RunSimulation

SpecStub == InitStub /\ [][NextStub]_vars

(***************************************************************************)
(* create_health_report on its own: a caller passes any dicts.  A heart    *)
(* rate of 22 puts the heart term at 0, 300 at -356; the temperatures put   *)
(* the temperature term at 100, 98, 96, 56, -632 and -168.                 *)
(***************************************************************************)
HeartRateInputs == {0, 22, 71, 72, 73, 140, 197, 300}

LevelInputs == {"Low", "Moderate", "High", "Severe"}

SignInputs == {"Alert", "Mild Fatigue", "Fatigued", "Asleep"}

TemperatureInputs ==
    {FromInt(0), FromDecimal(364, 10), FromDecimal(365, 10), FromDecimal(366, 10),
     FromDecimal(388, 10), FromInt(50)}

PostureInputs == {0, 1, 2, 25, 50, 53, 85, 87, 100}

FaceInputs ==
    {[heart_rate_estimate |-> hr, stress_level |-> sl, fatigue_signs |-> fs,
      temperature_estimate |-> t] :
        hr \in HeartRateInputs, sl \in LevelInputs, fs \in SignInputs,
        t \in TemperatureInputs}
    \cup {<<>>,
           [heart_rate_estimate |-> 300],
           [heart_rate_estimate |-> 72, fatigue_signs |-> "Alert",
            temperature_estimate |-> FromDecimal(366, 10)],
           [heart_rate_estimate |-> 72, stress_level |-> "Low",
            temperature_estimate |-> FromDecimal(366, 10)],
           [heart_rate_estimate |-> 72, stress_level |-> "Severe",
            temperature_estimate |-> FromDecimal(366, 10)],
           [stress_level |-> "High", fatigue_signs |-> "Fatigued"]}

PostureDicts == {[posture_score |-> ps] : ps \in PostureInputs} \cup {<<>>}

VoiceInputs ==
    {[vocal_stress |-> FromDecimal(1, 10), fatigue_level |-> "Low",
      speech_rate |-> FromInt(120), voice_health |-> "Healthy"],
     [vocal_stress |-> FromDecimal(9, 10), fatigue_level |-> "High",
      speech_rate |-> FromInt(180), voice_health |-> "Fatigued"],
     [fatigue_level |-> "Moderate"]}

\* the calls explored: every face with every posture and no voice, and a
\* few of them with a voice record
CallInputs ==
    {[face |-> f, posture |-> p, voice |-> NoVoice] :
        f \in FaceInputs, p \in PostureDicts}
    \cup {[face |-> f, posture |-> p, voice |-> v] :
            f \in {g \in FaceInputs : Get(g, "heart_rate_estimate", 72) = 72},
            p \in {[posture_score |-> 85], <<>>},
            v \in VoiceInputs}

InitReport ==
    /\ now = 0
    /\ health_data = default_health_data(0)
    /\ health_history = <<>>
    /\ emergency = FALSE
    /\ \E c \in CallInputs :
        /\ face_results = c.face
        /\ posture_results = c.posture
        /\ voice_results = c.voice
    /\ health_report = None
    /\ scans_analysed = 0
    /\ text_input = ""
    /\ text_result = None
    /\ rng = 0
    /\ stub_calls = <<>>
    /\ quick_form = None
    /\ quick_result = None

\* the call create_health_report(face_results, posture_results, voice_results)
CreateHealthReport ==
    /\ health_report = None
    /\ health_report' =
           create_health_report(face_results, posture_results, voice_results)
    /\ UNCHANGED <<session, now, face_results, posture_results, voice_results,
                   scans_analysed, latest_text, stub,
                   latest_quick>>

NextReport == CreateHealthReport

SpecReport == InitReport /\ [][NextReport]_vars

(***************************************************************************)
(* A scan on its own, over everything the analyzers can return: the two    *)
(* analyzer calls of a scan handler (src/app.py 475-478, 549-552), then    *)
(* create_health_report on their results.                                  *)
(***************************************************************************)
\* every face with every posture score, and the sampled faces with every
\* posture record
ScanInputs ==
    {[face |-> f, posture |-> p] :
        f \in analyze_face,
        p \in {q \in analyze_posture :
                  /\ q.shoulder_alignment = "Good"
                  /\ q.spine_curvature = "Normal"
                  /\ q.head_position = "Neutral"}}
    \cup {[face |-> f, posture |-> p] :
            f \in SampledFaces, p \in analyze_posture}

InitScan ==
    /\ now = 0
    /\ health_data = default_health_data(0)
    /\ health_history = <<>>
    /\ emergency = FALSE
    /\ \E c \in ScanInputs :
        /\ face_results = c.face
        /\ posture_results = c.posture
    /\ voice_results = NoVoice
    /\ health_report = None
    /\ scans_analysed = 0
    /\ text_input = ""
    /\ text_result = None
    /\ rng = 0
    /\ stub_calls = <<>>
    /\ quick_form = None
    /\ quick_result = None

\* health_report = create_health_report(face_results, posture_results)
ScanReport == CreateHealthReport

NextScan == ScanReport

SpecScan == InitScan /\ [][NextScan]_vars

(***************************************************************************)
(* Properties of create_health_report, checked under SpecReport.           *)
(***************************************************************************)
Called == health_report # None

\* the weighted sum behind the latest report
LatestSum == overall_score(health_report)

\* every report create_health_report gives on the explored calls
AllReports ==
    {create_health_report(c.face, c.posture, c.voice) : c \in CallInputs}

\* C1: for heart_rate in 0..300, temperature in 0..50, posture_score in
\* 0..100 and any categories, the overall_health_score of the report lies in
\* 0..100.  The code leaves the heart and temperature terms unclamped below,
\* so this fails: heart_rate 300 with Low, Alert, posture 0 and 36.6 gives -16.
C1_ScoreInRange ==
    Called => health_report["overall_health_score"] \in 0..100

\* C2: health_status and recommendation are a function of the stored integer
\* overall_health_score alone: any two reports with the same stored score
\* carry the same status and the same recommendation, although the status is
\* decided on the untruncated sum.
C2_StatusFromScore ==
    Called =>
        \A other \in AllReports :
            other["overall_health_score"] = health_report["overall_health_score"]
            => /\ other["health_status"] = health_report["health_status"]
               /\ other["recommendation"] = health_report["recommendation"]

\* a report whose sum lies strictly above its stored score 84, while the
\* report of another heart rate is stored as 84 too
C2_Witness ==
    /\ Called
    /\ health_report["overall_health_score"] = 84
    /\ FCmp(LatestSum, FromInt(84)) = 1
    /\ \E other \in AllReports :
        /\ other["overall_health_score"] = 84
        /\ other["heart_rate"] # health_report["heart_rate"]

\* C3: the overall score falls in exactly one band, the lower bound belonging
\* to the higher band: >= 85 Excellent, >= 70 and < 85 Good, >= 50 and < 70
\* Fair, < 50 Poor, each with its recommendation.
C3_Bands ==
    Called =>
        LET sum == LatestSum
            above(n) == FCmp(sum, FromInt(n)) >= 0
            band == <<health_report["health_status"], health_report["recommendation"]>>
        IN  /\ above(85) => band = <<"Excellent", "Maintain current routine">>
            /\ above(70) /\ ~above(85)
                   => band = <<"Good", "Take short breaks, stay hydrated">>
            /\ above(50) /\ ~above(70)
                   => band = <<"Fair", "Consider rest break, hydrate, stretch">>
            /\ ~above(50) => band = <<"Poor", "Immediate rest recommended">>

\* a sum of exactly 85, reported Excellent
C3_Witness ==
    /\ Called
    /\ FCmp(LatestSum, FromInt(85)) = 0
    /\ health_report["health_status"] = "Excellent"

\* C4: overall_health_score is the weighted sum truncated toward zero: it
\* has the sign of the sum (or is 0), and its magnitude is the largest
\* integer not above the magnitude of the sum; the five weight literals add
\* up to exactly 1.
C4_Truncation ==
    /\ weights_literal["heart_rate"] + weights_literal["stress_level"]
         + weights_literal["fatigue_level"] + weights_literal["posture_score"]
         + weights_literal["temperature"] = 100
    /\ Called =>
        LET n == health_report["overall_health_score"]
            sum == LatestSum
        IN  IF FCmp(sum, FZero) >= 0
            THEN /\ n >= 0
                 /\ FCmp(FromInt(n), sum) <= 0
                 /\ FCmp(sum, FromInt(n + 1)) = -1
            ELSE /\ n <= 0
                 /\ FCmp(FromInt(n - 1), sum) = -1
                 /\ FCmp(sum, FromInt(n)) <= 0

\* a negative sum above -1, stored as 0
C4_Witness ==
    /\ Called
    /\ FCmp(LatestSum, FZero) = -1
    /\ FCmp(FromInt(-1), LatestSum) = -1
    /\ health_report["overall_health_score"] = 0

\* C5: an unrecognized or missing stress or fatigue category never makes the
\* call fail: on every input the call returns a report, the category counts
\* 60 (the recognized ones 90, 70, 40), and the report is complete.
C5_Defaults ==
    /\ ~Called =>
        create_health_report(face_results, posture_results, voice_results)
            ["health_status"] \in {"Excellent", "Good", "Fair", "Poor"}
    /\ Called =>
        /\ {"overall_health_score", "health_status", "recommendation"}
               \subseteq DOMAIN health_report
        /\ stress_score(health_report) =
               (IF "stress_level" \notin DOMAIN face_results THEN 60
                ELSE IF face_results["stress_level"] = "Low" THEN 90
                ELSE IF face_results["stress_level"] = "Moderate" THEN 70
                ELSE IF face_results["stress_level"] = "High" THEN 40
                ELSE 60)
        /\ fatigue_score(health_report) =
               (IF "fatigue_signs" \notin DOMAIN face_results THEN 60
                ELSE IF face_results["fatigue_signs"] = "Alert" THEN 90
                ELSE IF face_results["fatigue_signs"] = "Mild Fatigue" THEN 70
                ELSE IF face_results["fatigue_signs"] = "Fatigued" THEN 40
                ELSE 60)

\* a report for a face record with an unrecognized stress level and no
\* fatigue entry
C5_Witness ==
    /\ Called
    /\ "fatigue_signs" \notin DOMAIN face_results
    /\ "stress_level" \in DOMAIN face_results
    /\ face_results["stress_level"] = "Severe"
    /\ health_report["health_status"] \in {"Excellent", "Good", "Fair", "Poor"}

\* C7: heart_rate 72, Low, Alert, posture_score 85, temperature 36.6 gives
\* heart term 100, stress 90, fatigue 90, temperature term 100, score 92,
\* Excellent, 'Maintain current routine'.
C7_Example ==
    ( /\ Called
      /\ face_results = [heart_rate_estimate |-> 72, stress_level |-> "Low",
                         fatigue_signs |-> "Alert",
                         temperature_estimate |-> FromDecimal(366, 10)]
      /\ posture_results = [posture_score |-> 85] )
    => /\ heart_component(health_report) = 100
       /\ stress_score(health_report) = 90
       /\ fatigue_score(health_report) = 90
       /\ FCmp(temp_component(health_report), FromInt(100)) = 0
       /\ health_report["overall_health_score"] = 92
       /\ health_report["health_status"] = "Excellent"
       /\ health_report["recommendation"] = "Maintain current routine"

\* the report of that reading
C7_Witness ==
    /\ Called
    /\ face_results = [heart_rate_estimate |-> 72, stress_level |-> "Low",
                       fatigue_signs |-> "Alert",
                       temperature_estimate |-> FromDecimal(366, 10)]
    /\ posture_results = [posture_score |-> 85]
    /\ voice_results = NoVoice

\* C12: the heart and temperature terms are never above 100 and are not
\* clamped below: the heart term is 100 - 2*|heart_rate - 72|, negative
\* exactly when |heart_rate - 72| > 50 (-36 at 140, -44 at 0), and the
\* temperature term is negative at 0 and at 50 degrees.  The reading 140,
\* High, Fatigued, posture_score 50, 36.6 uses -36 and is stored as 32, Poor.
C12_NoLowerClamp ==
    Called =>
        LET hr == health_report["heart_rate"]
            hc == heart_component(health_report)
            tc == temp_component(health_report)
        IN  /\ hc <= 100
            /\ FCmp(tc, FromInt(100)) <= 0
            /\ hc = 100 - 2 * Abs(hr - 72)
            /\ (hc < 0) <=> (Abs(hr - 72) > 50)
            /\ hr = 140 => hc = -36
            /\ hr = 0 => hc = -44
            /\ health_report["temperature"] \in {FromInt(0), FromInt(50)}
                   => FCmp(tc, FZero) = -1
            /\ ( /\ hr = 140
                 /\ health_report["stress_level"] = "High"
                 /\ health_report["fatigue_level"] = "Fatigued"
                 /\ health_report["posture_score"] = 50
                 /\ health_report["temperature"] = FromDecimal(366, 10) )
               => /\ health_report["overall_health_score"] = 32
                  /\ health_report["health_status"] = "Poor"

\* the report of the reading 140, High, Fatigued, 50, 36.6
C12_Witness ==
    /\ Called
    /\ health_report["heart_rate"] = 140
    /\ health_report["stress_level"] = "High"
    /\ health_report["fatigue_level"] = "Fatigued"
    /\ health_report["posture_score"] = 50
    /\ health_report["temperature"] = FromDecimal(366, 10)
    /\ health_report["overall_health_score"] = 32

\* the voice fields of a report
VoiceKeys == {"vocal_stress", "speech_rate", "voice_health"}

\* the reading a report was built from
ReadingOf(report) ==
    <<report["heart_rate"], report["stress_level"], report["fatigue_level"],
      report["posture_score"], report["temperature"]>>

\* C16: voice data is optional and does not influence the score: the report
\* holds vocal_stress, speech_rate and voice_health exactly when a non-empty
\* voice_results is given, the reading in it comes from face and posture
\* alone, and the report of the same face and posture without voice has the
\* same overall_health_score, health_status and recommendation.
C16_VoiceOptional ==
    Called =>
        /\ voice_results = NoVoice => VoiceKeys \cap DOMAIN health_report = {}
        /\ voice_results # NoVoice =>
              /\ VoiceKeys \subseteq DOMAIN health_report
              /\ health_report["fatigue_level"] =
                     Get(face_results, "fatigue_signs", "Unknown")
              /\ \E other \in AllReports :
                    /\ VoiceKeys \cap DOMAIN other = {}
                    /\ ReadingOf(other) = ReadingOf(health_report)
              /\ \A other \in AllReports :
                    ReadingOf(other) = ReadingOf(health_report)
                    => /\ other["overall_health_score"]
                            = health_report["overall_health_score"]
                       /\ other["health_status"] = health_report["health_status"]
                       /\ other["recommendation"] = health_report["recommendation"]

\* a report with a voice record whose fatigue_level is High, for an Alert face
C16_Witness ==
    /\ Called
    /\ voice_results # NoVoice
    /\ "fatigue_level" \in DOMAIN voice_results
    /\ voice_results["fatigue_level"] = "High"
    /\ health_report["fatigue_level"] = "Alert"
    /\ health_report["voice_health"] = "Fatigued"
    /\ health_report["overall_health_score"] = 92

(***************************************************************************)
(* Properties of the analyzers and of a scan, checked under SpecScan.      *)
(***************************************************************************)
\* C13: the possible heart_rate_estimate values are exactly 65 + {-10..20} =
\* 55..85 and the possible posture_score values exactly 60..94; stress_level
\* is one of Low/Moderate/High and fatigue_signs one of Alert/Mild
\* Fatigue/Fatigued.  np.random.randint(-10, 20) never draws 20, so 85 is
\* not a possible heart rate and this fails.
C13_StubRanges ==
    /\ {f["heart_rate_estimate"] : f \in analyze_face} = 55..85
    /\ {q["posture_score"] : q \in analyze_posture} = 60..94
    /\ face_results["heart_rate_estimate"] \in 55..85
    /\ posture_results["posture_score"] \in 60..94
    /\ face_results["stress_level"] \in {"Low", "Moderate", "High"}
    /\ face_results["fatigue_signs"] \in {"Alert", "Mild Fatigue", "Fatigued"}

\* C17: every report built from analyzer results has overall_health_score
\* between 54 and 93 inclusive, so a scan is never Poor and its score is in
\* 0..100.
C17_ScanScores ==
    Called =>
        /\ health_report["overall_health_score"] \in 54..93
        /\ health_report["overall_health_score"] \in 0..100
        /\ health_report["health_status"] # "Poor"

\* the lowest scan: heart rate 55, High, Fatigued, posture 60, 36.0 degrees,
\* stored as 54 and Fair
C17_Witness ==
    /\ Called
    /\ face_results["heart_rate_estimate"] = 55
    /\ face_results["temperature_estimate"] = FromInt(36)
    /\ posture_results["posture_score"] = 60
    /\ health_report["overall_health_score"] = 54
    /\ health_report["health_status"] = "Fair"

C8_ResetDefaults ==
    [][ ResetAllData =>
          /\ health_data'["heart_rate"] = 72
          /\ health_data'["stress_level"] = "Low"
          /\ health_data'["fatigue_score"] = 3
          /\ health_data'["posture_score"] = 85
          /\ health_data'["temperature"] = FromDecimal(366, 10)
          /\ health_data'["hydration_level"] = "Good"
      ]_vars

\* the defaults are back after a camera scan had overwritten them (no scan
\* leaves heart_rate 72 together with stress_level Low)
C8_Witness ==
    /\ Len(health_history) >= 1
    /\ health_history[1].report["fatigue_level"] = "Alert"
    /\ health_data["heart_rate"] = 72
    /\ health_data["stress_level"] = "Low"
    /\ health_data["fatigue_score"] = 3
    /\ health_data["posture_score"] = 85
    /\ health_data["last_check"] = 1

\* C9: health_history grows by exactly one entry per completed scan, Camera
\* Scan and Image Upload alike, so its length is the number of scans analysed
\* so far.  The Image Upload handler appends nothing, so this fails.
C9_HistoryCountsScans ==
    Len(health_history) = scans_analysed

\* C11: immediately after any scan is analysed, Camera Scan or Image Upload,
\* health_data holds that scan's heart_rate, stress_level, posture_score and
\* temperature, fatigue_score 1/2/3 for Alert/Mild Fatigue/Fatigued, and a
\* refreshed last_check.  The Image Upload handler writes nothing and the
\* Camera Scan handler leaves temperature out, so this fails.
C11_LatestScanStored ==
    [][ scans_analysed' # scans_analysed =>
          /\ health_data'["heart_rate"] = health_report'["heart_rate"]
          /\ health_data'["stress_level"] = health_report'["stress_level"]
          /\ health_data'["posture_score"] = health_report'["posture_score"]
          /\ health_data'["temperature"] = health_report'["temperature"]
          /\ health_report'["fatigue_level"] = "Alert"
                 => health_data'["fatigue_score"] = 1
          /\ health_report'["fatigue_level"] = "Mild Fatigue"
                 => health_data'["fatigue_score"] = 2
          /\ health_report'["fatigue_level"] = "Fatigued"
                 => health_data'["fatigue_score"] = 3
          /\ health_data'["last_check"] = now
      ]_vars

\* C18: in every reachable session state health_data['fatigue_score'] is 1,
\* 2 or 3: it starts at 3, a reset sets it to 3, a camera scan sets it to 1,
\* 2 or 3, and Log Rest lowers it by one but never below 1.
C18_FatigueScore ==
    /\ [](health_data["fatigue_score"] \in {1, 2, 3})
    /\ [][ /\ ResetAllData => health_data'["fatigue_score"] = 3
           /\ LogRest =>
                 health_data'["fatigue_score"] =
                     (IF health_data["fatigue_score"] = 1 THEN 1
                      ELSE health_data["fatigue_score"] - 1)
           /\ (AnalyzeHealth /\ health_report'["fatigue_level"] = "Alert")
                 => health_data'["fatigue_score"] = 1
           /\ (AnalyzeHealth /\ health_report'["fatigue_level"] = "Mild Fatigue")
                 => health_data'["fatigue_score"] = 2
           /\ (AnalyzeHealth /\ health_report'["fatigue_level"] = "Fatigued")
                 => health_data'["fatigue_score"] = 3
         ]_vars

\* rests logged down to 1 in a session without scans
C18_Witness ==
    /\ health_data["fatigue_score"] = 1
    /\ scans_analysed = 0
    /\ health_history = <<>>

\* C19: the emergency flag is a latch: it starts False, EMERGENCY ALERT sets
\* it, and no later action of the session (reset, scans, logs) clears it, so
\* the overlay is rendered on every later rerun.
C19_EmergencyLatch ==
    /\ ~emergency
    /\ [][ /\ EmergencyAlert => emergency'
           /\ emergency => emergency' /\ emergency_overlay'
           /\ (~emergency /\ emergency') => EmergencyAlert
         ]_vars

\* the flag still up after a scan and a later reset
C19_Witness ==
    /\ emergency
    /\ emergency_overlay
    /\ scans_analysed = 1
    /\ Len(health_history) = 1
    /\ health_data["last_check"] = 1
    /\ health_data["heart_rate"] = 72
    /\ health_data["stress_level"] = "Low"

\* C20: no action changes health_data['temperature'] or
\* health_data['hydration_level']: in every reachable session state the
\* temperature is 36.6 and the hydration level is Good.
C20_TemperatureHydration ==
    /\ health_data["temperature"] = FromDecimal(366, 10)
    /\ health_data["hydration_level"] = "Good"

\* a camera scan that measured 36.0 degrees has been stored, and the
\* temperature is still 36.6
C20_Witness ==
    /\ Len(health_history) = 1
    /\ health_history[1].report["temperature"] = FromInt(36)
    /\ health_data["heart_rate"] = 55
    /\ health_data["temperature"] = FromDecimal(366, 10)
    /\ health_data["hydration_level"] = "Good"

(***************************************************************************)
(* Properties of the text scan, checked under SpecText.                    *)
(***************************************************************************)
\* j keywords and k filler words, as PaddedTexts builds them
Padded(j, k) == Repeat("Deadline ", j) \o Repeat("ok ", k) \o "."

\* C10: the text scan counts the whitespace-split tokens and those that are
\* stress keywords, and classifies their ratio (over max(1, tokens)) High when
\* above 0.1, Moderate when above 0.05 and at most 0.1, Low otherwise; the
\* sentence 'I am so tired and stressed about the deadline' has 9 words and
\* 3 matches and is High.
C10_TextScan ==
    text_input # "" =>
        LET wc == text_result["word_count"]
            sw == text_result["stress_words"]
            den == IF wc > 1 THEN wc ELSE 1
        IN  /\ \A j \in 0..2, k \in 0..MaxFiller :
                  text_input = Padded(j, k) => wc = j + k + 1 /\ sw = j
            /\ text_input = "   " => wc = 0 /\ sw = 0
            /\ FCmp(text_result["stress_ratio"], FromDecimal(sw, den)) = 0
            /\ text_result["stress_level"] =
                   (IF 10 * sw > den THEN "High"
                    ELSE IF 20 * sw > den THEN "Moderate"
                    ELSE "Low")
            /\ text_input = "I am so tired and stressed about the deadline"
                   => wc = 9 /\ sw = 3 /\ text_result["stress_level"] = "High"

\* the sentence analysed
C10_Witness ==
    /\ text_input = "I am so tired and stressed about the deadline"
    /\ text_result["stress_level"] = "High"
    /\ text_result["word_count"] = 9

\* what the text scan must count for a text: tokens and keyword matches
ExpectedCounts ==
    {<<"TIRED", 1, 1>>, <<"tired,", 1, 0>>, <<"deadlines", 1, 0>>,
     <<"Tired  and\tRUSH\nnow", 4, 2>>, <<"burnout", 1, 1>>,
     <<"so anxious , so worried", 5, 2>>,
     <<"under pressure. exhausted!", 3, 0>>,
     <<"overwhelmed overwhelmed", 2, 2>>, <<"rushed", 1, 0>>, <<"stress", 1, 0>>,
     <<"Tired STRESSED Overwhelmed exhausted BurnOut anxious Worried PRESSURE deadline Rush",
       10, 10>>,
     <<"tiredness stressful pressured", 3, 0>>}

\* C14: keyword matching is case-insensitive and whole-token: a token counts
\* only if, lower-cased, it equals one of the ten keywords; 'tired,' and
\* 'deadlines' are not counted, 'TIRED' is, and so is each of the ten
\* keywords in any case.
C14_WholeTokenMatch ==
    /\ Cardinality(stress_keywords) = 10
    /\ \A x \in ExpectedCounts :
          text_input = x[1] =>
              /\ text_result["word_count"] = x[2]
              /\ text_result["stress_words"] = x[3]

\* 'TIRED' analysed and counted
C14_Witness ==
    /\ text_input = "TIRED"
    /\ text_result["stress_words"] = 1

(***************************************************************************)
(* Properties of the analyzer calls, checked under SpecStub.               *)
(***************************************************************************)
\* C15: an analyze_face or analyze_voice result is a function of the
\* clock-derived seed only: two calls of the same analyzer within the same
\* second return identical records, whatever the generator did before and
\* whatever image or audio was passed; so the calls of one Run Simulation
\* that fall in the same second give identical results.
C15_SeedOnly ==
    \A i, j \in DOMAIN stub_calls :
        ( /\ stub_calls[i].fn = stub_calls[j].fn
          /\ stub_calls[i].fn \in {"analyze_face", "analyze_voice"}
          /\ int_time(stub_calls[i].at) = int_time(stub_calls[j].at) )
        => stub_calls[i].results = stub_calls[j].results

\* an analyze_voice call with some audio, then a simulation whose five calls
\* fall in one second: five identical results, other than the earlier
\* second's, although the first call had left the generator elsewhere
C15_Witness ==
    /\ Len(stub_calls) = 6
    /\ \A i \in 1..6 : stub_calls[i].fn = "analyze_voice"
    /\ \A i \in 2..6 :
          /\ int_time(stub_calls[i].at) = int_time(stub_calls[2].at)
          /\ stub_calls[i].results = voice_results
    /\ stub_calls[2].at < stub_calls[6].at
    /\ stub_calls[1].arg = "media"
    /\ stub_calls[1].results # voice_results

(***************************************************************************)
(* C21: the Dashboard's gauge and alert banner follow                      *)
(* health_data['posture_score'] alone: error below 60, warning for 60..74, *)
(* success from 75.  The score is 85 at the start and after a reset, and a *)
(* scan writes an analyze_posture score, all of which are in 60..94, so    *)
(* the banner is never the "LOW HEALTH SCORE" error; a step that leaves    *)
(* posture_score alone leaves the banner alone, whatever report it made.   *)
(***************************************************************************)
C21_GaugeFromPosture ==
    /\ {score \in 0..100 : alert_banner(score) = "error"} = 0..59
    /\ {score \in 0..100 : alert_banner(score) = "warning"} = 60..74
    /\ {score \in 0..100 : alert_banner(score) = "success"} = 75..100
    /\ \A p \in analyze_posture :
           /\ p.posture_score \in 60..94
           /\ alert_banner(p.posture_score) # "error"
    /\ [](/\ health_score = health_data.posture_score
          /\ health_data.posture_score \in 60..94
          /\ dashboard_banner # "error"
          /\ dashboard_banner =
                 IF health_data.posture_score >= 75 THEN "success" ELSE "warning")
    /\ [][health_data'.posture_score = health_data.posture_score
              => dashboard_banner' = dashboard_banner]_vars
    /\ [][health_data'.posture_score # health_data.posture_score
              => \/ health_data'.posture_score = 85
                 \/ /\ Len(health_history') = Len(health_history) + 1
                    /\ health_data'.posture_score = posture_results'.posture_score]_vars

\* a camera scan stored posture 60 and made a report that scores below 60:
\* the banner is the warning
C21_Witness ==
    /\ health_history # <<>>
    /\ health_report # None
    /\ health_report["overall_health_score"] < 60
    /\ health_data.posture_score = 60
    /\ health_data.posture_score = health_report["posture_score"]
    /\ dashboard_banner = "warning"

(***************************************************************************)
(* C22: a Quick Health Check submission computes                           *)
(* (10*energy + (100 - 8*stress) + min(100, 100*hours_slept/8)             *)
(*  + min(100, 100*breaks/4)) / 4.  For energy and stress in 1..10, hours  *)
(* in 0..12 and breaks in 0..10 the score is between 7.5 and 98, so below  *)
(* 100; the label is Excellent from 80, Fair from 60 and Needs attention   *)
(* below 60; and the submission leaves health_data, health_history and the *)
(* emergency flag as they were.  The exact value is counted in 1/3200.     *)
(***************************************************************************)
C22_QuickCheck ==
    /\ [](quick_result # None =>
            LET score == quick_result.overall_score
                hundredths == CHOOSE k \in HoursHundredths :
                                  hours_typed[k] = quick_form.hours_slept
                sleep == IF hundredths < 800 THEN 100 * hundredths ELSE 80000
                breaks == IF quick_form.breaks_taken < 4
                          THEN 20000 * quick_form.breaks_taken ELSE 80000
                exact == 800 * (10 * quick_form.energy
                                + (100 - 8 * quick_form.stress))
                         + sleep + breaks
            IN  /\ quick_form \in QuickForms
                /\ FLt(FAbs(FSub(FMul(score, FromInt(3200)), FromInt(exact))),
                       FromDecimal(1, 10000))
                /\ hundredths % 100 = 0 => score = FromDecimal(exact \div 100, 32)
                /\ FGe(score, FromDecimal(75, 10))
                /\ FGe(FromInt(98), score)
                /\ FLt(score, FromInt(100))
                /\ quick_result.label =
                       IF exact >= 80 * 3200 THEN "Excellent condition!"
                       ELSE IF exact >= 60 * 3200 THEN "Fair condition"
                       ELSE "Needs attention")
    /\ [][quick_form' # quick_form \/ quick_result' # quick_result
              => /\ health_data' = health_data
                 /\ health_history' = health_history
                 /\ emergency' = emergency]_vars

\* the best answers, submitted in a session that has changed: the score
\* is exactly 98
C22_Witness ==
    /\ quick_form = [energy |-> 10, stress |-> 1, hours_slept |-> FromInt(12),
                     breaks_taken |-> 10]
    /\ quick_result = [overall_score |-> FromInt(98),
                       label |-> "Excellent condition!"]
    /\ emergency
    /\ health_data.fatigue_score = 1

====
